---- MODULE Spec2Model ----
(***************************************************************************)
(* A model of pstack's DWARF DIE layer (src/dwarf_die.cc): attribute       *)
(* lookup with indirection through DW_AT_abstract_origin and               *)
(* DW_AT_specification, DIE reference resolution, address containment,     *)
(* the DWARF4/DWARF5 range-list decoders, and the lazily decoded DIE tree. *)
(*                                                                         *)
(* Three specifications share the module.  SpecAttr draws a DIE reference  *)
(* graph and applies the attribute queries to it; SpecRange draws a DIE    *)
(* with low_pc/high_pc/ranges and a range-list section and applies         *)
(* containsAddress; SpecTree draws a unit's DIE tree and runs child        *)
(* iterators, cross-reference decoding and parent queries on it.           *)
(***************************************************************************)
EXTENDS Integers, Sequences, FiniteSets, TLC

VARIABLES
    \* ---- attribute lookup (SpecAttr) ----
    dieAttrs,        \* DIE -> attribute name -> NoAttr or [form, value]
    altLoaded,       \* whether Info::getAltDwarf() returns an alt-DWARF Info
    stringTables,    \* Info -> the string sections it has (debugStrings,
                     \* debugLineStrings)
    attrQuery,       \* the last query made
    attrResult       \* what it returned (or how it ended)

VARIABLES
    \* ---- address containment and range lists (SpecRange) ----
    unitVersion,     \* die.unit->version
    dieLow,          \* the DIE's DW_AT_low_pc: NoAttr or [form, value]
    dieHigh,         \* the DIE's DW_AT_high_pc
    dieRanges,       \* the DIE's DW_AT_ranges
    rnglistsBase,    \* DW_AT_rnglists_base of the unit's root DIE
    debugRanges,     \* .debug_ranges: a sequence of (start, end) pairs
    debugRnglists,   \* .debug_rnglists: a sequence of entries
    rangesForOffset, \* Unit::rangesForOffset: value -> [isNew, ranges]
    caQuery,         \* the last range query made
    caResult         \* its answer

VARIABLES
    \* ---- the lazily decoded DIE tree (SpecTree) ----
    unitShape,       \* the unit's bytes in .debug_info, as a sequence of items
    allEntries,      \* Unit::allEntries: offset -> the DIE::Raw decoded there
    iters,           \* the Children::const_iterators the caller holds
    parentResult     \* the last getParentOffset() call and how it ended

VARIABLES
    \* ---- findEntryForAddr over the DIE tree (SpecFind) ----
    dieInfo,         \* offset -> the DIE's tag and low_pc/high_pc pair
    findResult       \* the last findEntryForAddr call and what it returned

VARIABLES
    \* ---- scoped stop/resume of the target (SpecStop) ----
    scopes,          \* the guards alive on the caller's stack, innermost last
    hostCalls,       \* the calls the Process has received, in order
    ended            \* the scopes that have ended

attrVars == <<dieAttrs, altLoaded, stringTables, attrQuery, attrResult>>
treeVars == <<unitShape, allEntries, iters, parentResult>>
rangeInputs == <<unitVersion, dieLow, dieHigh, dieRanges, rnglistsBase,
                 debugRanges, debugRnglists>>
rangeVars == <<rangeInputs, rangesForOffset, caQuery, caResult>>

findVars == <<dieInfo, findResult>>
stopVars == <<scopes, hostCalls, ended>>

vars == <<attrVars, rangeVars, treeVars, findVars, stopVars>>

(***************************************************************************)
(* Names and forms                                                         *)
(***************************************************************************)
DW_AT_name == "DW_AT_name"
DW_AT_declaration == "DW_AT_declaration"
DW_AT_abstract_origin == "DW_AT_abstract_origin"
DW_AT_specification == "DW_AT_specification"
DW_AT_type == "DW_AT_type"

AttrNames == {DW_AT_name, DW_AT_type, DW_AT_declaration,
              DW_AT_abstract_origin, DW_AT_specification}

RefUnitForms == {"DW_FORM_ref_udata", "DW_FORM_ref1", "DW_FORM_ref2",
                 "DW_FORM_ref4", "DW_FORM_ref8"}

NoAttr == [form |-> "none", value |-> 0]

\* The empty DIE, DIE(): no unit, no raw.
NoDIE == [info |-> "none", off |-> 0]

DieAt(info, off) == [info |-> info, off |-> off]

(***************************************************************************)
(* The layout the reference graphs live in: the main Info has two units,   *)
(* the alt-DWARF Info one.  A unit is [offset, end); DIEs sit at the       *)
(* offsets of DieOffsets.                                                  *)
(***************************************************************************)
UnitsOf(info) ==
    CASE info = "main" -> {[offset |-> 0, end |-> 8], [offset |-> 8, end |-> 16]}
      [] info = "alt"  -> {[offset |-> 0, end |-> 8]}
      [] OTHER         -> {}

DieOffsets(info) ==
    CASE info = "main" -> {2, 5, 10}
      [] info = "alt"  -> {2}
      [] OTHER         -> {}

MainDies == {DieAt("main", o) : o \in DieOffsets("main")}
AltDies == {DieAt("alt", o) : o \in DieOffsets("alt")}
AllDies == MainDies \cup AltDies

UnitOf(d) == CHOOSE u \in UnitsOf(d.info) : u.offset <= d.off /\ d.off < u.end

\* Outcomes of a query: every one is a record with a kind.
Invalid == [kind |-> "invalid"]
Thrown == [kind |-> "exception"]
Aborted == [kind |-> "abort"]
Crashed == [kind |-> "crash"]
NoReturn == [kind |-> "noreturn"]
Found(d, name) ==
    [kind |-> "attr", die |-> d, name |-> name,
     form |-> dieAttrs[d][name].form, value |-> dieAttrs[d][name].value]
DieResult(d) == [kind |-> "die", die |-> d]

(***************************************************************************)
(* DIE reference resolution                                                *)
(***************************************************************************)
\* Unit::offsetToDIE(parent, offset): the DIE cached or decoded at `offset`
\* of unit u, the empty DIE when the offset is 0, lies outside the unit or
\* holds no DIE.
UnitOffsetToDIE(info, u, off) ==
    IF off = 0 \/ off < u.offset \/ off >= u.end THEN NoDIE
    ELSE IF off \in DieOffsets(info) THEN DieAt(info, off)
    ELSE NoDIE

\* Info::offsetToDIE(offset): the DIE at `offset` in whichever unit of the
\* Info covers it, the empty DIE when none does.
InfoOffsetToDIE(info, off) ==
    LET hits == {u \in UnitsOf(info) :
                    u.offset <= off /\ off < u.end
                    /\ UnitOffsetToDIE(info, u, off) # NoDIE}
    IN  IF hits = {} THEN NoDIE
        ELSE UnitOffsetToDIE(info, CHOOSE u \in hits : TRUE, off)

\* Info::getAltDwarf(): only the main Info has a companion, when loaded.
getAltDwarf(info) == IF info = "main" /\ altLoaded THEN "alt" ELSE "none"

\* DIE::Attribute::operator DIE(), on the attribute `a` (an outcome of a
\* lookup: Found(...) or Invalid).
ToDIE(a) ==
    IF a.kind # "attr" THEN DieResult(NoDIE)
    ELSE IF a.form = "DW_FORM_GNU_ref_alt" /\ getAltDwarf(a.die.info) = "none"
         THEN Thrown
    ELSE IF a.form \notin RefUnitForms \cup {"DW_FORM_ref_addr", "DW_FORM_GNU_ref_alt"}
         THEN Aborted
    ELSE
      LET u == UnitOf(a.die)
          dwarf == IF a.form = "DW_FORM_GNU_ref_alt"
                   THEN getAltDwarf(a.die.info) ELSE a.die.info
          off == IF a.form \in RefUnitForms THEN a.value + u.offset ELSE a.value
          otherEntry ==
              IF dwarf = a.die.info /\ u.offset <= off /\ u.end > off
              THEN UnitOffsetToDIE(dwarf, u, off) ELSE NoDIE
      IN  IF otherEntry # NoDIE THEN DieResult(otherEntry)
          ELSE DieResult(InfoOffsetToDIE(dwarf, off))

(***************************************************************************)
(* DIE::attribute                                                          *)
(***************************************************************************)
\* The static std::set<AttrName> derefs, in its iteration order: the set is
\* ordered by the attribute codes, DW_AT_abstract_origin (0x31) before
\* DW_AT_specification (0x47).
derefsSpecificationFirst == <<DW_AT_specification, DW_AT_abstract_origin>>

derefs == <<DW_AT_abstract_origin, DW_AT_specification>>

IsDeref(name) == \E i \in 1..Len(derefs) : derefs[i] = name

\* The lookup in raw->type->attrName2Idx alone.
localAttribute(d, name) ==
    IF dieAttrs[d][name] # NoAttr THEN Found(d, name) ELSE Invalid

\* attribute(name, local) on DIE d.  `visited` holds the DIEs whose
\* attribute(name) calls are still open: the recursion has no state, so
\* reaching one of them again means the call never returns.
RECURSIVE attributeFrom(_, _, _, _)
RECURSIVE tryDerefs(_, _, _, _)
tryDerefs(d, name, i, visited) ==
    IF i > Len(derefs) THEN Invalid
    ELSE
      LET ao == ToDIE(localAttribute(d, derefs[i]))
      IN  IF ao.kind # "die" THEN ao
          ELSE IF ao.die # NoDIE /\ ao.die # d
               THEN IF ao.die \in visited THEN NoReturn
                    ELSE attributeFrom(ao.die, name, FALSE, visited \cup {d})
               ELSE tryDerefs(d, name, i + 1, visited)

attributeFrom(d, name, local, visited) ==
    IF dieAttrs[d][name] # NoAttr THEN Found(d, name)
    ELSE IF ~local /\ name # DW_AT_declaration /\ ~IsDeref(name)
         THEN tryDerefs(d, name, 1, visited)
         ELSE Invalid

attribute(d, name, local) == attributeFrom(d, name, local, {})

StringForms == {"DW_FORM_GNU_strp_alt", "DW_FORM_strp", "DW_FORM_line_strp",
                "DW_FORM_string", "DW_FORM_strx1", "DW_FORM_strx2",
                "DW_FORM_strx3", "DW_FORM_strx4", "DW_FORM_strx"}

StringResult(s) == [kind |-> "string", value |-> s]

AltStringsUnavailable == "(alt string table unavailable)"

\* Whether the Info has the section: dwarf->debugStrings (.debug_str) or
\* dwarf->debugLineStrings (.debug_line_str) is not null.
HasTable(info, section) == section \in stringTables[info]

\* DIE::Attribute::operator std::string().  The attribute's value stands
\* for the string at its offset in the table its form names.  A
\* DW_FORM_GNU_strp_alt string is read from the alt Info's table and is
\* replaced by a fixed text when there is no alt Info or it has no table;
\* DW_FORM_strp and DW_FORM_line_strp read the DIE's own Info's table
\* without testing it, and the null table ends the program.
AttrToString(a) ==
    IF a.kind # "attr" THEN StringResult("")
    ELSE IF a.form = "DW_FORM_GNU_strp_alt"
         THEN LET alt == getAltDwarf(a.die.info)
              IN  IF alt = "none" THEN StringResult(AltStringsUnavailable)
                  ELSE IF ~HasTable(alt, "debug_str")
                       THEN StringResult(AltStringsUnavailable)
                  ELSE StringResult(a.value)
    ELSE IF a.form = "DW_FORM_strp"
         THEN IF HasTable(a.die.info, "debug_str")
              THEN StringResult(a.value) ELSE Crashed
    ELSE IF a.form = "DW_FORM_line_strp"
         THEN IF HasTable(a.die.info, "debug_line_str")
              THEN StringResult(a.value) ELSE Crashed
    ELSE IF a.form \in StringForms THEN StringResult(a.value)
    ELSE Aborted

\* DIE::name()
name(d) ==
    LET attr == attribute(d, DW_AT_name, FALSE)
    IN  IF attr.kind = "attr" THEN AttrToString(attr)
        ELSE IF attr.kind = "invalid" THEN StringResult("")
        ELSE attr

(***************************************************************************)
(* The reference graphs SpecAttr draws.  Every reference points at a DIE   *)
(* or outside every unit; the forms cover same-unit, cross-unit, alt-file  *)
(* and unresolvable references.                                            *)
(***************************************************************************)
D1 == DieAt("main", 2)
D2 == DieAt("main", 5)
D3 == DieAt("main", 10)
DA == DieAt("alt", 2)

Ref(form, value) == [form |-> form, value |-> value]

OriginChoices(d) ==
    CASE d = D1 -> {NoAttr, Ref("DW_FORM_ref4", 5), Ref("DW_FORM_ref_addr", 10),
                    Ref("DW_FORM_ref4", 2), Ref("DW_FORM_GNU_ref_alt", 2),
                    Ref("DW_FORM_ref_addr", 40)}
      [] d = D2 -> {NoAttr, Ref("DW_FORM_ref_udata", 2), Ref("DW_FORM_ref4", 10)}
      [] d = D3 -> {NoAttr, Ref("DW_FORM_ref_addr", 2)}
      [] OTHER  -> {NoAttr}

SpecificationChoices(d) ==
    CASE d = D1 -> {NoAttr, Ref("DW_FORM_ref4", 5), Ref("DW_FORM_ref_addr", 10)}
      [] d = D2 -> {NoAttr, Ref("DW_FORM_ref_addr", 10)}
      [] OTHER  -> {NoAttr}

NameString(d) ==
    CASE d = D1 -> "alpha" [] d = D2 -> "beta" [] d = D3 -> "foo" [] OTHER -> "alt_foo"

\* D2 may take its name from the alt file's string table, D3 from its own
\* file's .debug_line_str, DA has its name in its file's .debug_str.
NameChoices(d) ==
    IF d = DA THEN {Ref("DW_FORM_strp", NameString(d))}
    ELSE IF d = D2
    THEN {NoAttr, Ref("DW_FORM_string", NameString(d)),
          Ref("DW_FORM_GNU_strp_alt", "zzz")}
    ELSE IF d = D3
    THEN {NoAttr, Ref("DW_FORM_string", NameString(d)),
          Ref("DW_FORM_line_strp", NameString(d))}
    ELSE {NoAttr, Ref("DW_FORM_string", NameString(d))}

\* The string sections of the two files: the main file may lack
\* .debug_line_str, a loaded alt file may lack .debug_str.
TableChoices(alt) ==
    {[info \in {"main", "alt"} |-> IF info = "main" THEN m ELSE a] :
        m \in {{"debug_str", "debug_line_str"}, {"debug_str"}},
        a \in IF alt THEN {{"debug_str", "debug_line_str"}, {"debug_line_str"}}
              ELSE {{}}}

DeclarationChoices(d) ==
    IF d = D2 THEN {NoAttr, Ref("DW_FORM_flag_present", 1)} ELSE {NoAttr}

TypeChoices(d) ==
    IF d = D3 THEN {NoAttr, Ref("DW_FORM_ref4", 2)} ELSE {NoAttr}

DieAttrChoices(d) ==
    {[n \in AttrNames |->
        CASE n = DW_AT_name -> nm
          [] n = DW_AT_type -> ty
          [] n = DW_AT_declaration -> dc
          [] n = DW_AT_abstract_origin -> ao
          [] OTHER -> sp] :
        nm \in NameChoices(d), ty \in TypeChoices(d), dc \in DeclarationChoices(d),
        ao \in OriginChoices(d), sp \in SpecificationChoices(d)}

NoQuery == [op |-> "none", die |-> NoDIE, name |-> "", local |-> FALSE]
NoResult == [kind |-> "none"]

NoParentResult == [die |-> 0, kind |-> "none", parent |-> 0, walked |-> FALSE]
TreeIdle ==
    /\ unitShape = <<>> /\ allEntries = <<>> /\ iters = <<>>
    /\ parentResult = NoParentResult

NoFindResult == [start |-> 0, addr |-> 0, tag |-> "", skipStart |-> FALSE, die |-> 0]
FindIdle == dieInfo = <<>> /\ findResult = NoFindResult

StopIdle == scopes = <<>> /\ hostCalls = <<>> /\ ended = {}

AttrIdle ==
    /\ dieAttrs = <<>>
    /\ altLoaded = FALSE
    /\ stringTables = <<>>
    /\ attrQuery = NoQuery
    /\ attrResult = NoResult

(***************************************************************************)
(* Addresses.  Elf::Addr and uintmax_t arithmetic wraps at the address     *)
(* width; the model keeps the wrap at AddrBits bits.                       *)
(***************************************************************************)
AddrBits == 13
AddrMod == 2 ^ AddrBits
AllOnes == AddrMod - 1
AddrAdd(a, b) == (a + b) % AddrMod

DataForms == {"DW_FORM_data1", "DW_FORM_data2", "DW_FORM_data4",
              "DW_FORM_data8", "DW_FORM_udata"}

\* DIE::Attribute::operator uintmax_t(): the value, 0 for the invalid
\* attribute, abort() for a form it does not convert.
UIntOf(a) ==
    IF a = NoAttr THEN [ok |-> TRUE, value |-> 0]
    ELSE IF a.form \in DataForms \cup {"DW_FORM_implicit_const",
                                       "DW_FORM_addr", "DW_FORM_sec_offset"}
         THEN [ok |-> TRUE, value |-> a.value]
         ELSE [ok |-> FALSE, value |-> 0]

(***************************************************************************)
(* DIE::Attribute::operator const Ranges&()                                *)
(***************************************************************************)
RleEntry(type, a, b) == [type |-> type, a |-> a, b |-> b]
EndOfList == RleEntry("DW_RLE_end_of_list", 0, 0)

Decoded(ranges) == [ok |-> TRUE, ranges |-> ranges]
DecodeAbort == [ok |-> FALSE, ranges |-> <<>>]
Emit(range, rest) ==
    IF rest.ok THEN Decoded(<<range>> \o rest.ranges) ELSE DecodeAbort

\* The DWARF4 loop over .debug_ranges from pair index i.
RECURSIVE DecodeRangesV4(_, _)
DecodeRangesV4(sec, i) ==
    LET start == sec[i + 1][1]
        end == sec[i + 1][2]
    IN  IF start = 0 /\ end = 0 THEN <<>>
        ELSE <<(<<start, end>>)>> \o DecodeRangesV4(sec, i + 1)

\* The DWARF5 loop with offset_pair emitting its operands unshifted.
RECURSIVE DecodeRnglistsNoBase(_, _, _)
DecodeRnglistsNoBase(sec, i, base) ==
    LET e == sec[i + 1]
    IN  CASE e.type = "DW_RLE_end_of_list" -> Decoded(<<>>)
          [] e.type = "DW_RLE_offset_pair" ->
                Emit(<<e.a, e.b>>, DecodeRnglistsNoBase(sec, i + 1, base))
          [] e.type = "DW_RLE_base_address" -> DecodeRnglistsNoBase(sec, i + 1, e.a)
          [] e.type = "DW_RLE_start_end" ->
                Emit(<<e.a, e.b>>, DecodeRnglistsNoBase(sec, i + 1, base))
          [] e.type = "DW_RLE_start_length" ->
                Emit(<<e.a, AddrAdd(e.a, e.b)>>, DecodeRnglistsNoBase(sec, i + 1, base))
          [] OTHER -> DecodeAbort

\* The DWARF5 loop over .debug_rnglists from entry index i with the current
\* base; base_addressx, startx_endx, startx_length and unknown entry types
\* abort().
RECURSIVE DecodeRnglists(_, _, _)
DecodeRnglists(sec, i, base) ==
    LET e == sec[i + 1]
    IN  CASE e.type = "DW_RLE_end_of_list" -> Decoded(<<>>)
          [] e.type \in {"DW_RLE_base_addressx", "DW_RLE_startx_endx",
                         "DW_RLE_startx_length"} -> DecodeAbort
          [] e.type = "DW_RLE_offset_pair" ->
                Emit(<<AddrAdd(e.a, base), AddrAdd(e.b, base)>>,
                     DecodeRnglists(sec, i + 1, base))
          [] e.type = "DW_RLE_base_address" -> DecodeRnglists(sec, i + 1, e.a)
          [] e.type = "DW_RLE_start_end" ->
                Emit(<<e.a, e.b>>, DecodeRnglists(sec, i + 1, base))
          [] e.type = "DW_RLE_start_length" ->
                Emit(<<e.a, AddrAdd(e.a, e.b)>>, DecodeRnglists(sec, i + 1, base))
          [] OTHER -> DecodeAbort

\* Where the DWARF5 list of a DW_AT_ranges value starts: the value plus
\* DW_AT_rnglists_base of the root DIE when the root has one.
\* [ok, value]: ok is FALSE when the conversion of the base aborts.
RnglistsOffset(val) ==
    LET base == UIntOf(rnglistsBase)
    IN  IF base.ok THEN [ok |-> TRUE, value |-> val + base.value]
        ELSE [ok |-> FALSE, value |-> 0]

\* The conversion of the DW_AT_ranges attribute `a`: the cached list when
\* rangesForOffset already holds one, else the decoded list, stored.
\* [ok, ranges, cache]: ok is FALSE when the decoder aborts.
RangesOf(a) ==
    LET val == a.value
        slot == rangesForOffset[val]
        dec == IF unitVersion < 5
               THEN Decoded(DecodeRangesV4(debugRanges, val))
               ELSE IF ~RnglistsOffset(val).ok THEN DecodeAbort
               ELSE DecodeRnglists(debugRnglists, RnglistsOffset(val).value, 0)
    IN  IF ~slot.isNew
        THEN [ok |-> TRUE, ranges |-> slot.ranges, cache |-> rangesForOffset]
        ELSE [ok |-> dec.ok, ranges |-> dec.ranges,
              cache |-> [rangesForOffset EXCEPT
                            ![val] = [isNew |-> FALSE, ranges |-> dec.ranges]]]

(***************************************************************************)
(* DIE::containsAddress                                                    *)
(***************************************************************************)
PairContainsClosed(start, end, addr) ==
    IF start <= addr /\ end >= addr THEN "YES" ELSE "NO"

\* The low_pc/high_pc test.
PairContains(start, end, addr) ==
    IF start <= addr /\ end > addr THEN "YES" ELSE "NO"

\* The test of one decoded range.
RangeContains(range, base, addr) ==
    AddrAdd(range[1], base) <= addr /\ addr <= AddrAdd(range[2], base)

\* containsAddress(addr): [answer, cache].
containsAddress(addr) ==
    LET low == dieLow
        high == dieHigh
        same(answer) == [answer |-> answer, cache |-> rangesForOffset]
    IN  IF low # NoAttr /\ high # NoAttr
        THEN IF low.form # "DW_FORM_addr" THEN same("ABORT")
             ELSE IF high.form = "DW_FORM_addr"
                  THEN same(PairContains(low.value, high.value, addr))
             ELSE IF high.form \in DataForms
                  THEN same(PairContains(low.value, AddrAdd(low.value, high.value), addr))
             ELSE same("ABORT")
        ELSE IF ~UIntOf(low).ok THEN same("ABORT")
        ELSE LET base == UIntOf(low).value
             IN  IF dieRanges # NoAttr
                 THEN LET r == RangesOf(dieRanges)
                      IN  IF ~r.ok THEN [answer |-> "ABORT", cache |-> r.cache]
                          ELSE IF \E i \in 1..Len(r.ranges) :
                                     RangeContains(r.ranges[i], base, addr)
                               THEN [answer |-> "YES", cache |-> r.cache]
                               ELSE [answer |-> "NO", cache |-> r.cache]
                 ELSE same("UNKNOWN")

(***************************************************************************)
(* The inputs SpecRange draws                                              *)
(***************************************************************************)
MaxEntries == 3

RangeVals == {0, 1}

SeqsUpTo(S, n) == UNION {[1..k -> S] : k \in 0..n}

V4Pairs == {<<0, 0>>, <<16, 32>>, <<24, 33>>, <<AllOnes, 4096>>}
V4Sections == {body \o <<(<<0, 0>>)>> : body \in SeqsUpTo(V4Pairs, MaxEntries)}

V5Entries ==
    {EndOfList,
     RleEntry("DW_RLE_base_address", 4096, 0),
     RleEntry("DW_RLE_offset_pair", 16, 32),
     RleEntry("DW_RLE_start_end", 24, 33),
     RleEntry("DW_RLE_start_length", 4112, 16),
     RleEntry("DW_RLE_base_addressx", 1, 0),
     RleEntry("DW_RLE_startx_endx", 1, 2),
     RleEntry("DW_RLE_startx_length", 1, 16)}
V5Sections == {body \o <<EndOfList>> : body \in SeqsUpTo(V5Entries, MaxEntries)}

LowChoices == {Ref("DW_FORM_addr", 4096), Ref("DW_FORM_addr", AllOnes - 15),
               Ref("DW_FORM_addrx", 1)}
HighChoices == {Ref("DW_FORM_addr", 4128), Ref("DW_FORM_data1", 32),
                Ref("DW_FORM_data2", 32), Ref("DW_FORM_data4", 32),
                Ref("DW_FORM_data8", 32), Ref("DW_FORM_udata", 32),
                Ref("DW_FORM_sdata", 32)}
RangesChoices == {Ref("DW_FORM_sec_offset", v) : v \in RangeVals}
BaseChoices == {NoAttr, Ref("DW_FORM_sec_offset", 1), Ref("DW_FORM_sdata", 1)}

AddrQueries == {0, 15, 16, 24, 32, 33, 34, 4096, 4111, 4112, 4117, 4128, 4129, 4133, AllOnes}

NoRangeQuery == [op |-> "none", addr |-> 0]

RangeIdle ==
    /\ unitVersion = 0 /\ dieLow = NoAttr /\ dieHigh = NoAttr /\ dieRanges = NoAttr
    /\ rnglistsBase = NoAttr /\ debugRanges = <<>> /\ debugRnglists = <<>>
    /\ rangesForOffset = <<>>
    /\ caQuery = NoRangeQuery /\ caResult = "none"

\* Either a DIE with a low_pc/high_pc pair, or one without the pair whose
\* DW_AT_ranges (if any) names a list that starts inside its section.
InitRange ==
    /\ AttrIdle
    /\ TreeIdle
    /\ FindIdle
    /\ StopIdle
    /\ unitVersion \in {4, 5}
    /\ \/ /\ dieLow \in LowChoices /\ dieHigh \in HighChoices
          /\ dieRanges \in {NoAttr, Ref("DW_FORM_sec_offset", 0)}
          /\ rnglistsBase = NoAttr
          /\ debugRanges = <<(<<16, 32>>), (<<0, 0>>)>>
          /\ debugRnglists = <<RleEntry("DW_RLE_start_end", 24, 33), EndOfList>>
       \/ /\ \/ dieLow \in LowChoices \cup {NoAttr} /\ dieHigh = NoAttr
             \/ dieLow = NoAttr /\ dieHigh = Ref("DW_FORM_data4", 32)
          /\ dieRanges \in RangesChoices \cup {NoAttr}
          /\ \/ /\ unitVersion = 4
                /\ rnglistsBase = NoAttr
                /\ debugRanges \in V4Sections
                /\ debugRnglists = <<>>
                /\ dieRanges # NoAttr => dieRanges.value < Len(debugRanges)
             \/ /\ unitVersion = 5
                /\ rnglistsBase \in BaseChoices
                /\ debugRanges = <<>>
                /\ debugRnglists \in V5Sections
                /\ dieRanges # NoAttr =>
                      RnglistsOffset(dieRanges.value).value < Len(debugRnglists)
    /\ rangesForOffset = [v \in RangeVals |-> [isNew |-> TRUE, ranges |-> <<>>]]
    /\ caQuery = NoRangeQuery
    /\ caResult = "none"

\* abort() ends the program.
RangeAlive == caResult # "ABORT"

ContainsAddress(addr) ==
    /\ RangeAlive
    /\ LET r == containsAddress(addr)
       IN  /\ caResult' = r.answer
           /\ rangesForOffset' = r.cache
    /\ caQuery' = [op |-> "containsAddress", addr |-> addr]
    /\ UNCHANGED <<rangeInputs, attrVars, treeVars, findVars, stopVars>>

\* Ranges(die.attribute(DW_AT_ranges)) by a caller other than
\* containsAddress.
GetRanges ==
    /\ RangeAlive
    /\ dieRanges # NoAttr
    /\ LET r == RangesOf(dieRanges)
       IN  /\ caResult' = IF r.ok THEN "RANGES" ELSE "ABORT"
           /\ rangesForOffset' = r.cache
    /\ caQuery' = [op |-> "ranges", addr |-> 0]
    /\ UNCHANGED <<rangeInputs, attrVars, treeVars, findVars, stopVars>>

NextRange ==
    \/ \E addr \in AddrQueries : ContainsAddress(addr)
    \/ GetRanges

SpecRange == InitRange /\ [][NextRange]_vars

InitAttr ==
    /\ RangeIdle
    /\ TreeIdle
    /\ FindIdle
    /\ StopIdle
    /\ \E a1 \in DieAttrChoices(D1), a2 \in DieAttrChoices(D2),
          a3 \in DieAttrChoices(D3), aa \in DieAttrChoices(DA) :
           dieAttrs = [d \in AllDies |->
                          CASE d = D1 -> a1 [] d = D2 -> a2 [] d = D3 -> a3 [] OTHER -> aa]
    /\ altLoaded \in BOOLEAN
    /\ stringTables \in TableChoices(altLoaded)
    /\ attrQuery = NoQuery
    /\ attrResult = NoResult

\* The queries are pure functions of the graph: a behaviour draws the graph
\* and applies one query to it.
NoQueryYet == attrQuery = NoQuery

QueryAttribute(d, n, local) ==
    /\ NoQueryYet
    /\ attrQuery' = [op |-> "attribute", die |-> d, name |-> n, local |-> local]
    /\ attrResult' = attribute(d, n, local)
    /\ UNCHANGED <<dieAttrs, altLoaded, stringTables, rangeVars, treeVars, findVars, stopVars>>

QueryName(d) ==
    /\ NoQueryYet
    /\ attrQuery' = [op |-> "name", die |-> d, name |-> DW_AT_name, local |-> FALSE]
    /\ attrResult' = name(d)
    /\ UNCHANGED <<dieAttrs, altLoaded, stringTables, rangeVars, treeVars, findVars, stopVars>>

\* DIE(d.attribute(n)): the attribute query that yields a DIE.
QueryDIE(d, n) ==
    /\ NoQueryYet
    /\ attrQuery' = [op |-> "DIE", die |-> d, name |-> n, local |-> FALSE]
    /\ attrResult' = ToDIE(attribute(d, n, FALSE))
    /\ UNCHANGED <<dieAttrs, altLoaded, stringTables, rangeVars, treeVars, findVars, stopVars>>

NextAttr ==
    \/ \E d \in MainDies, n \in AttrNames, local \in BOOLEAN : QueryAttribute(d, n, local)
    \/ \E d \in MainDies : QueryName(d)
    \/ \E d \in MainDies, n \in {DW_AT_abstract_origin, DW_AT_specification} : QueryDIE(d, n)

SpecAttr == InitAttr /\ [][NextAttr]_vars

(***************************************************************************)
(* The DIE tree of one unit.  The unit's bytes are a sequence of items in  *)
(* pre-order: "L" a DIE whose abbreviation declares no children, "P" one   *)
(* that declares children, "S" one that declares children and carries     *)
(* DW_AT_sibling, "E" the zero abbreviation code that ends a list of      *)
(* children.  A DIE takes one byte, two with DW_AT_sibling; "E" one.       *)
(***************************************************************************)
MaxItems == 7

TreeUnit == [offset |-> 10, header |-> 1]

ItemSize(sym) == IF sym = "S" THEN 2 ELSE 1

RECURSIVE SizeUpTo(_, _)
SizeUpTo(shape, i) ==
    IF i = 0 THEN 0 ELSE SizeUpTo(shape, i - 1) + ItemSize(shape[i])

\* The offset of item i; item Len + 1 is the unit's end.
ItemOffset(shape, i) == TreeUnit.offset + TreeUnit.header + SizeUpTo(shape, i - 1)
UnitEnd(shape) == ItemOffset(shape, Len(shape) + 1)

\* The number of lists of children still open after item i.
RECURSIVE OpenAfter(_, _)
OpenAfter(shape, i) ==
    IF i = 0 THEN 0
    ELSE OpenAfter(shape, i - 1)
         + (CASE shape[i] \in {"P", "S"} -> 1 [] shape[i] = "E" -> -1 [] OTHER -> 0)

\* One root DIE (without DW_AT_sibling), every list of children closed by
\* its "E", nothing after the root's subtree.
WellFormed(shape) ==
    /\ Len(shape) >= 1
    /\ shape[1] \in {"L", "P"}
    /\ \A i \in 1..(Len(shape) - 1) : OpenAfter(shape, i) >= 1
    /\ OpenAfter(shape, Len(shape)) = 0

UnitShapes ==
    {shape \in UNION {[1..n -> {"L", "P", "S", "E"}] : n \in 1..MaxItems} :
        WellFormed(shape)}

IsDieItem(shape, i) == shape[i] # "E"
DieItems(shape) == {i \in 1..Len(shape) : IsDieItem(shape, i)}
ItemAtOffset(shape, off) == CHOOSE i \in 1..Len(shape) : ItemOffset(shape, i) = off
ItemOffsets(shape) == {ItemOffset(shape, i) : i \in 1..Len(shape)}
DieOffsetsOf(shape) == {ItemOffset(shape, i) : i \in DieItems(shape)}

\* The "E" that closes the children of the DIE at item i.
EndMarkerOf(shape, i) ==
    CHOOSE j \in (i + 1)..Len(shape) :
        /\ OpenAfter(shape, j) = OpenAfter(shape, i) - 1
        /\ \A k \in (i + 1)..(j - 1) : OpenAfter(shape, k) >= OpenAfter(shape, i)

\* The value of DW_AT_sibling of item i: the next sibling's offset,
\* relative to the unit.
SiblingValue(shape, i) ==
    ItemOffset(shape, EndMarkerOf(shape, i) + 1) - TreeUnit.offset

(***************************************************************************)
(* DIE::Raw and the unit's cache                                           *)
(***************************************************************************)
\* `asked` is history, not a field of the source: whether DIE::nextSibling
\* has been called on this DIE.
NotDecoded ==
    [decoded |-> FALSE, parent |-> 0, firstChild |-> 0, nextSibling |-> 0,
     asked |-> FALSE]
Raw(parent, firstChild, nextSibling) ==
    [decoded |-> TRUE, parent |-> parent, firstChild |-> firstChild,
     nextSibling |-> nextSibling, asked |-> FALSE]

\* What a call on the cache yields: the new cache and the DIE returned
\* (its offset, 0 for a DIE without a raw).
Yield(cache, die) == [cache |-> cache, die |-> die]

\* DIE::Raw::Raw for the DIE at item i, decoded with parent offset
\* `parent`.
RawAt(shape, i, parent) ==
    LET after == ItemOffset(shape, i) + ItemSize(shape[i])
        fromAttr == IF shape[i] = "S"
                    THEN SiblingValue(shape, i) + TreeUnit.offset ELSE 0
    IN  IF shape[i] \in {"P", "S"}
        THEN Raw(parent, after, fromAttr)
        ELSE Raw(parent, 0, after)

\* DIE::decode(unit, parent, offset), stored by Unit::offsetToDIE: the zero
\* abbreviation code sets the parent's nextSibling and yields no raw.
decode(shape, cache, parent, off) ==
    LET i == ItemAtOffset(shape, off)
    IN  IF shape[i] = "E"
        THEN Yield(IF parent # 0
                   THEN [cache EXCEPT ![parent].nextSibling = off + 1]
                   ELSE cache, 0)
        ELSE Yield([cache EXCEPT ![off] = RawAt(shape, i, parent)], off)

\* Unit::offsetToDIE(parent, offset): the empty DIE for offset 0 or an
\* offset outside the unit, the cached raw when there is one, else the
\* result of decode.
offsetToDIE(shape, cache, parent, off) ==
    IF off = 0 \/ off < TreeUnit.offset \/ off >= UnitEnd(shape)
    THEN Yield(cache, 0)
    ELSE IF off \in DOMAIN cache /\ cache[off].decoded THEN Yield(cache, off)
    ELSE decode(shape, cache, parent, off)

\* An iterator that does not take the opportunity to set the parent.
AdoptParentNever(y, parent) == y

\* The const_iterator constructor and the tail of operator++: a current
\* DIE whose parent is still unknown gets the iterator's parent.
AdoptParent(y, parent) ==
    IF y.die # 0 /\ parent # 0 /\ y.cache[y.die].parent = 0
    THEN Yield([y.cache EXCEPT ![y.die].parent = parent], y.die)
    ELSE y

\* DIE::Children::begin(): const_iterator(parent.firstChild(), parent).
begin(shape, cache, parent) ==
    AdoptParent(offsetToDIE(shape, cache, parent, cache[parent].firstChild), parent)

\* DIE::nextSibling(parent) on the DIE at `die`, operator++ of an iterator
\* over `parent` standing at `die`, and the loop of nextSibling over all
\* children of `die` (from iterator position `cur`, `last` the raw seen
\* last).
RECURSIVE nextSibling(_, _, _, _)
RECURSIVE increment(_, _, _, _)
RECURSIVE forEachChild(_, _, _, _, _)
forEachChild(shape, cache, die, cur, last) ==
    IF cur = 0 THEN Yield(cache, last)
    ELSE LET y == increment(shape, cache, die, cur)
         IN  forEachChild(shape, y.cache, die, y.die, cur)

nextSibling(shape, entries, die, parent) ==
    LET cache == [entries EXCEPT ![die].asked = TRUE]
    IN
    IF cache[die].nextSibling = 0
    THEN LET b == begin(shape, cache, die)
             w == forEachChild(shape, b.cache, die, b.die, 0)
             c == IF w.die # 0
                  THEN [w.cache EXCEPT ![w.die].nextSibling = 0]
                  ELSE w.cache
         IN  offsetToDIE(shape, c, parent, c[die].nextSibling)
    ELSE offsetToDIE(shape, cache, parent, cache[die].nextSibling)

increment(shape, cache, parent, cur) ==
    AdoptParent(nextSibling(shape, cache, cur, parent), parent)

\* walk(die): for (auto c : die.children()) walk(c), as the cache it
\* leaves; walkFrom is the loop with its iterator standing at `cur`.
RECURSIVE walk(_, _, _)
RECURSIVE walkFrom(_, _, _, _)
walkFrom(shape, cache, die, cur) ==
    IF cur = 0 THEN cache
    ELSE LET y == increment(shape, walk(shape, cache, cur), die, cur)
         IN  walkFrom(shape, y.cache, die, y.die)

walk(shape, cache, die) ==
    LET b == begin(shape, cache, die)
    IN  walkFrom(shape, b.cache, die, b.die)

\* unit->root() and Unit::isRoot.
RootOffset(shape) == ItemOffset(shape, 1)
root(shape, cache) == offsetToDIE(shape, cache, 0, RootOffset(shape))

\* DIE::getParentOffset() on the DIE at `die`: the cache it leaves, how it
\* ends ("offset", or "assert" when assert(raw->parent != 0) fails) and
\* whether it walked the unit.
getParentOffset(shape, cache, die) ==
    IF cache[die].parent = 0 /\ die # RootOffset(shape)
    THEN LET r == root(shape, cache)
             c == walk(shape, r.cache, r.die)
         IN  [cache |-> c,
              result |-> [die |-> die,
                          kind |-> IF c[die].parent # 0 THEN "offset" ELSE "assert",
                          parent |-> c[die].parent, walked |-> TRUE]]
    ELSE [cache |-> cache,
          result |-> [die |-> die, kind |-> "offset",
                      parent |-> cache[die].parent, walked |-> FALSE]]

(***************************************************************************)
(* SpecTree: a caller that gets the root, follows references into the      *)
(* unit, and runs iterators over the children of the DIEs it holds.        *)
(***************************************************************************)
MaxIters == 2

InitTree ==
    /\ AttrIdle
    /\ RangeIdle
    /\ FindIdle
    /\ StopIdle
    /\ unitShape \in UnitShapes
    /\ allEntries = [o \in DieOffsetsOf(unitShape) |-> NotDecoded]
    /\ iters = <<>>
    /\ parentResult = NoParentResult

Decoded_(off) == off \in DOMAIN allEntries /\ allEntries[off].decoded

\* unit->root(): the DIE right after the unit header, decoded without a
\* parent.
Root ==
    /\ allEntries' = offsetToDIE(unitShape, allEntries, 0,
                                 ItemOffset(unitShape, 1)).cache
    /\ allEntries' # allEntries
    /\ UNCHANGED <<unitShape, iters, parentResult, attrVars, rangeVars, findVars, stopVars>>

\* A reference from another DIE resolved by unit->offsetToDIE(DIE(), off):
\* the target is decoded without knowing its parent.
CrossReference(off) ==
    /\ ~Decoded_(off)
    /\ allEntries' = offsetToDIE(unitShape, allEntries, 0, off).cache
    /\ UNCHANGED <<unitShape, iters, parentResult, attrVars, rangeVars, findVars, stopVars>>

\* die.children().begin() on a DIE the caller holds.
Begin(parent) ==
    /\ Len(iters) < MaxIters
    /\ Decoded_(parent)
    /\ LET b == begin(unitShape, allEntries, parent)
       IN  /\ allEntries' = b.cache
           /\ iters' = Append(iters, [parent |-> parent, cur |-> b.die,
                                      yielded |-> IF b.die = 0 THEN <<>> ELSE <<b.die>>])
    /\ UNCHANGED <<unitShape, parentResult, attrVars, rangeVars, findVars, stopVars>>

\* ++it on an iterator that is not at the end.
Increment(k) ==
    /\ iters[k].cur # 0
    /\ LET y == increment(unitShape, allEntries, iters[k].parent, iters[k].cur)
       IN  /\ allEntries' = y.cache
           /\ iters' = [iters EXCEPT ![k].cur = y.die,
                                     ![k].yielded =
                                        IF y.die = 0 THEN @ ELSE Append(@, y.die)]
    /\ UNCHANGED <<unitShape, parentResult, attrVars, rangeVars, findVars, stopVars>>

\* The caller drops an iterator, at the end of its loop or before.
Drop(k) ==
    /\ iters' = [j \in 1..(Len(iters) - 1) |-> IF j < k THEN iters[j] ELSE iters[j + 1]]
    /\ UNCHANGED <<unitShape, allEntries, parentResult, attrVars, rangeVars, findVars, stopVars>>

\* die.getParentOffset() on a DIE the caller holds.
GetParentOffset(off) ==
    /\ Decoded_(off)
    /\ LET g == getParentOffset(unitShape, allEntries, off)
       IN  /\ allEntries' = g.cache
           /\ parentResult' = g.result
    /\ UNCHANGED <<unitShape, iters, attrVars, rangeVars, findVars, stopVars>>

NextTree ==
    \/ Root
    \/ \E off \in DieOffsetsOf(unitShape) \ {ItemOffset(unitShape, 1)} : CrossReference(off)
    \/ \E parent \in DieOffsetsOf(unitShape) : Begin(parent)
    \/ \E k \in 1..Len(iters) : Increment(k)
    \/ \E k \in 1..Len(iters) : Drop(k)
    \/ \E off \in DieOffsetsOf(unitShape) : GetParentOffset(off)

SpecTree == InitTree /\ [][NextTree]_vars

(***************************************************************************)
(* SpecFind: findEntryForAddr over the lazily decoded tree.  Every DIE has *)
(* a tag and either a DW_AT_low_pc/DW_AT_high_pc pair of form addr or      *)
(* neither (and no DW_AT_ranges).                                          *)
(***************************************************************************)
MaxFindItems == 5

DW_TAG_subprogram == "DW_TAG_subprogram"
DW_TAG_lexical_block == "DW_TAG_lexical_block"
Tags == {DW_TAG_subprogram, DW_TAG_lexical_block}

NoPc == [low |-> 0, high |-> 0]
Pc(low, high) == [low |-> low, high |-> high]
PcChoices == {NoPc, Pc(16, 32), Pc(32, 48)}
\* The address and the tag searched for.
FindAddrs == {24}
SearchTags == {DW_TAG_subprogram}

\* DIE::containsAddress on a DIE with the addr-form pair or with none of
\* DW_AT_low_pc, DW_AT_high_pc, DW_AT_ranges.
dieContainsAddress(info, addr) ==
    IF info.pc # NoPc THEN PairContains(info.pc.low, info.pc.high, addr)
    ELSE "UNKNOWN"

\* A findEntryForAddr that takes the innermost match of the first child
\* that has one before looking at the DIE itself.
RECURSIVE findInnermost(_, _, _, _, _, _, _)
RECURSIVE findInnermostInChildren(_, _, _, _, _, _, _)
findInnermostInChildren(shape, cache, infos, parent, cur, addr, t) ==
    IF cur = 0 THEN Yield(cache, 0)
    ELSE LET r == findInnermost(shape, cache, infos, cur, addr, t, FALSE)
         IN  IF r.die # 0 THEN r
             ELSE LET y == increment(shape, r.cache, parent, cur)
                  IN  findInnermostInChildren(shape, y.cache, infos, parent,
                                              y.die, addr, t)

findInnermost(shape, cache, infos, die, addr, t, skipStart) ==
    LET answer == dieContainsAddress(infos[die], addr)
    IN  IF answer = "NO" THEN Yield(cache, 0)
        ELSE LET b == begin(shape, cache, die)
                 r == findInnermostInChildren(shape, b.cache, infos, die,
                                              b.die, addr, t)
             IN  IF r.die # 0 THEN r
                 ELSE IF answer = "YES" /\ ~skipStart /\ infos[die].tag = t
                 THEN Yield(r.cache, die)
                 ELSE r

\* DIE::findEntryForAddr(address, t, skipStart) on the DIE at `die`, and
\* its loop over children() with the iterator standing at `cur`.
RECURSIVE findEntryForAddr(_, _, _, _, _, _, _)
RECURSIVE findInChildren(_, _, _, _, _, _, _)
findInChildren(shape, cache, infos, parent, cur, addr, t) ==
    IF cur = 0 THEN Yield(cache, 0)
    ELSE LET r == findEntryForAddr(shape, cache, infos, cur, addr, t, FALSE)
         IN  IF r.die # 0 THEN r
             ELSE LET y == increment(shape, r.cache, parent, cur)
                  IN  findInChildren(shape, y.cache, infos, parent, y.die,
                                     addr, t)

findEntryForAddr(shape, cache, infos, die, addr, t, skipStart) ==
    LET answer == dieContainsAddress(infos[die], addr)
    IN  IF answer = "NO" THEN Yield(cache, 0)
        ELSE IF answer = "YES" /\ ~skipStart /\ infos[die].tag = t
        THEN Yield(cache, die)
        ELSE LET b == begin(shape, cache, die)
             IN  findInChildren(shape, b.cache, infos, die, b.die, addr, t)

FindShapes == {shape \in UnitShapes : Len(shape) <= MaxFindItems}

InitFind ==
    /\ AttrIdle
    /\ RangeIdle
    /\ StopIdle
    /\ unitShape \in FindShapes
    /\ allEntries = [o \in DieOffsetsOf(unitShape) |-> NotDecoded]
    /\ iters = <<>>
    /\ parentResult = NoParentResult
    /\ dieInfo \in [DieOffsetsOf(unitShape) -> [tag : Tags, pc : PcChoices]]
    /\ findResult = NoFindResult

\* unit->root() by the caller of the search.
FindRoot ==
    /\ allEntries' = root(unitShape, allEntries).cache
    /\ allEntries' # allEntries
    /\ UNCHANGED <<unitShape, iters, parentResult, dieInfo, findResult,
                   attrVars, rangeVars, stopVars>>

\* A DIE the caller got from a reference.
FindReference(off) ==
    /\ ~Decoded_(off)
    /\ allEntries' = offsetToDIE(unitShape, allEntries, 0, off).cache
    /\ UNCHANGED <<unitShape, iters, parentResult, dieInfo, findResult,
                   attrVars, rangeVars, stopVars>>

\* die.findEntryForAddr(addr, t, skipStart) on a DIE the caller holds.
FindEntryForAddr(start, addr, t, skipStart) ==
    /\ Decoded_(start)
    /\ LET r == findEntryForAddr(unitShape, allEntries, dieInfo, start, addr,
                                 t, skipStart)
       IN  /\ allEntries' = r.cache
           /\ findResult' = [start |-> start, addr |-> addr, tag |-> t,
                             skipStart |-> skipStart, die |-> r.die]
    /\ UNCHANGED <<unitShape, iters, parentResult, dieInfo,
                   attrVars, rangeVars, stopVars>>

NextFind ==
    \/ FindRoot
    \/ \E off \in DieOffsetsOf(unitShape) \ {RootOffset(unitShape)} : FindReference(off)
    \/ \E start \in DieOffsetsOf(unitShape), addr \in FindAddrs, t \in SearchTags,
          skipStart \in BOOLEAN : FindEntryForAddr(start, addr, t, skipStart)

SpecFind == InitFind /\ [][NextFind]_vars

(***************************************************************************)
(* SpecStop: StopProcess and StopLWP guards on the caller's stack and the  *)
(* calls they make on the Process.  A scope ends by reaching its end or by *)
(* an exception that unwinds every scope it passes.                        *)
(***************************************************************************)
MaxScopes == 3
MaxClears == 2
Lwps == {1, 2}

Call(op, lwp, by) == [op |-> op, lwp |-> lwp, by |-> by]
Guard(kind, id, proc, lwp, clears) ==
    [kind |-> kind, id |-> id, proc |-> proc, lwp |-> lwp, clears |-> clears]
Guarded(g, calls) == [guard |-> g, calls |-> calls]

\* StopProcess(proc_): proc(proc_) { proc->stopProcess(); }.  `proc` is
\* whether the member is non-null; `id` and `clears` tell the scopes apart
\* and count the clear() calls made on the guard.
StopProcessCtor(id, calls) ==
    Guarded(Guard("StopProcess", id, TRUE, 0, 0),
            Append(calls, Call("stopProcess", 0, id)))

\* A clear() that resumes but leaves the guard armed.
clearKeepsProc(g, calls) ==
    IF g.proc
    THEN Guarded(g, Append(calls, Call("resumeProcess", 0, g.id)))
    ELSE Guarded(g, calls)

\* StopProcess::clear().
clear(g, calls) ==
    IF g.proc
    THEN Guarded([g EXCEPT !.proc = FALSE],
                 Append(calls, Call("resumeProcess", 0, g.id)))
    ELSE Guarded(g, calls)

\* ~StopProcess() { clear(); }: the calls after it.
StopProcessDtor(g, calls) == clear(g, calls).calls

\* StopLWP(proc_, lwp_) { proc->stop(lwp); } and ~StopLWP() {
\* proc->resume(lwp); }.
StopLWPCtor(id, lwp, calls) ==
    Guarded(Guard("StopLWP", id, TRUE, lwp, 0),
            Append(calls, Call("stop", lwp, id)))
StopLWPDtor(g, calls) == Append(calls, Call("resume", g.lwp, g.id))

\* The destructor of a guard, and those of a whole stack run by an
\* exception, innermost first.
Destroy(g, calls) ==
    IF g.kind = "StopProcess" THEN StopProcessDtor(g, calls)
    ELSE StopLWPDtor(g, calls)

RECURSIVE Unwind(_, _)
Unwind(stack, calls) ==
    IF stack = <<>> THEN calls
    ELSE Unwind(SubSeq(stack, 1, Len(stack) - 1),
                Destroy(stack[Len(stack)], calls))

Ended(g, exit) ==
    [id |-> g.id, kind |-> g.kind, lwp |-> g.lwp, clears |-> g.clears,
     exit |-> exit]

InitStop ==
    /\ AttrIdle
    /\ RangeIdle
    /\ TreeIdle
    /\ FindIdle
    /\ scopes = <<>>
    /\ hostCalls = <<>>
    /\ ended = {}

ScopesOpened == Cardinality(ended) + Len(scopes)

\* { StopProcess here(proc); ...
EnterStopProcess ==
    /\ ScopesOpened < MaxScopes
    /\ LET c == StopProcessCtor(ScopesOpened + 1, hostCalls)
       IN  /\ scopes' = Append(scopes, c.guard)
           /\ hostCalls' = c.calls
    /\ UNCHANGED <<ended, attrVars, rangeVars, treeVars, findVars>>

\* { StopLWP here(proc, lwp); ...
EnterStopLWP(lwp) ==
    /\ ScopesOpened < MaxScopes
    /\ LET c == StopLWPCtor(ScopesOpened + 1, lwp, hostCalls)
       IN  /\ scopes' = Append(scopes, c.guard)
           /\ hostCalls' = c.calls
    /\ UNCHANGED <<ended, attrVars, rangeVars, treeVars, findVars>>

\* here.clear() on a StopProcess guard in scope.
Clear(i) ==
    /\ scopes[i].kind = "StopProcess"
    /\ scopes[i].clears < MaxClears
    /\ LET c == clear(scopes[i], hostCalls)
       IN  /\ scopes' = [scopes EXCEPT ![i] = [c.guard EXCEPT !.clears = @ + 1]]
           /\ hostCalls' = c.calls
    /\ UNCHANGED <<ended, attrVars, rangeVars, treeVars, findVars>>

\* ... } the innermost scope reaches its end.
LeaveScope ==
    /\ scopes # <<>>
    /\ hostCalls' = Destroy(scopes[Len(scopes)], hostCalls)
    /\ ended' = ended \cup {Ended(scopes[Len(scopes)], "return")}
    /\ scopes' = SubSeq(scopes, 1, Len(scopes) - 1)
    /\ UNCHANGED <<attrVars, rangeVars, treeVars, findVars>>

\* An exception leaves every open scope.
Throw ==
    /\ scopes # <<>>
    /\ hostCalls' = Unwind(scopes, hostCalls)
    /\ ended' = ended \cup {Ended(scopes[i], "exception") : i \in 1..Len(scopes)}
    /\ scopes' = <<>>
    /\ UNCHANGED <<attrVars, rangeVars, treeVars, findVars>>

NextStop ==
    \/ EnterStopProcess
    \/ \E lwp \in Lwps : EnterStopLWP(lwp)
    \/ \E i \in 1..Len(scopes) : Clear(i)
    \/ LeaveScope
    \/ Throw

SpecStop == InitStop /\ [][NextStop]_vars

(***************************************************************************)
(* Claims on attribute lookup                                              *)
(***************************************************************************)
Derefable(n) == n \notin {DW_AT_declaration, DW_AT_abstract_origin, DW_AT_specification}

OriginOf(d) == ToDIE(localAttribute(d, DW_AT_abstract_origin))
SpecificationOf(d) == ToDIE(localAttribute(d, DW_AT_specification))

\* C1: attribute(name, local=false) on a DIE that lacks `name` and has both
\* references, whose abstract_origin target does not provide `name` while
\* its specification target does, returns the value found through
\* DW_AT_specification.
C1_SpecificationAfterOrigin ==
    LET D == attrQuery.die
        n == attrQuery.name
    IN  (/\ attrQuery.op = "attribute" /\ ~attrQuery.local /\ Derefable(n)
         /\ dieAttrs[D][n] = NoAttr
         /\ dieAttrs[D][DW_AT_abstract_origin] # NoAttr
         /\ dieAttrs[D][DW_AT_specification] # NoAttr
         /\ OriginOf(D).kind = "die" /\ SpecificationOf(D).kind = "die"
         /\ SpecificationOf(D).die # NoDIE
         /\ (OriginOf(D).die = NoDIE
             \/ attribute(OriginOf(D).die, n, FALSE) = Invalid)
         /\ attribute(SpecificationOf(D).die, n, FALSE).kind = "attr")
        => attrResult = attribute(SpecificationOf(D).die, n, FALSE)

\* The table the string attribute `a` points into is there to read.
StringReadable(a) ==
    CASE a.form = "DW_FORM_GNU_strp_alt" ->
             getAltDwarf(a.die.info) # "none"
             /\ HasTable(getAltDwarf(a.die.info), "debug_str")
      [] a.form = "DW_FORM_strp" -> HasTable(a.die.info, "debug_str")
      [] a.form = "DW_FORM_line_strp" -> HasTable(a.die.info, "debug_line_str")
      [] OTHER -> TRUE

\* C2: a DIE D that lacks `name` locally and whose DW_AT_abstract_origin
\* resolves to another DIE T answers attribute(name) as T does, for every
\* name but DW_AT_declaration, DW_AT_abstract_origin, DW_AT_specification;
\* name() of D is T's name, T's own DW_AT_name when T carries one: the
\* string conversion of that attribute, which is the string it names
\* whenever its table is there to read.
C2_OriginIndirection ==
    LET D == attrQuery.die
        n == attrQuery.name
        T == OriginOf(D).die
    IN  (/\ attrQuery.op \in {"attribute", "name"} /\ ~attrQuery.local
         /\ Derefable(n)
         /\ dieAttrs[D][n] = NoAttr
         /\ OriginOf(D).kind = "die" /\ T # NoDIE /\ T # D)
        => IF attrQuery.op = "attribute"
           THEN attrResult = attribute(T, n, FALSE)
           ELSE /\ attrResult = name(T)
                /\ dieAttrs[T][DW_AT_name] # NoAttr
                   => /\ attrResult = AttrToString(localAttribute(T, DW_AT_name))
                      /\ StringReadable(localAttribute(T, DW_AT_name))
                         => attrResult = StringResult(dieAttrs[T][DW_AT_name].value)

\* Scenario: a cross-unit DW_FORM_ref_addr abstract_origin whose target is
\* named "foo"; name() of the referring DIE has returned "foo".
C2_Witness ==
    /\ attrQuery.op = "name" /\ attrQuery.die = D1
    /\ dieAttrs[D1][DW_AT_name] = NoAttr
    /\ dieAttrs[D1][DW_AT_abstract_origin] = Ref("DW_FORM_ref_addr", 10)
    /\ dieAttrs[D3][DW_AT_name] # NoAttr
    /\ attrResult = StringResult("foo")

\* C9: an attribute query that goes through an unresolvable reference (a
\* DW_FORM_GNU_ref_alt attribute with no alt-DWARF file loaded, or a ref*
\* offset outside every unit) raises nothing: a DIE query yields the empty
\* DIE, a lookup through the reference yields an attribute or the invalid
\* attribute.
Unresolvable(a) ==
    /\ a # NoAttr
    /\ \/ a.form = "DW_FORM_GNU_ref_alt" /\ ~altLoaded
       \/ a.form = "DW_FORM_ref_addr" /\ InfoOffsetToDIE("main", a.value) = NoDIE

C9_UnresolvedReferenceIsEmpty ==
    LET D == attrQuery.die
    IN  /\ (attrQuery.op = "DIE" /\ Unresolvable(dieAttrs[D][attrQuery.name]))
           => attrResult = DieResult(NoDIE)
        /\ (/\ attrQuery.op = "attribute" /\ ~attrQuery.local
            /\ Derefable(attrQuery.name)
            /\ dieAttrs[D][attrQuery.name] = NoAttr
            /\ Unresolvable(dieAttrs[D][DW_AT_abstract_origin]))
           => attrResult.kind \in {"attr", "invalid"}

(***************************************************************************)
(* Claims on address containment and the range-list decoders               *)
(***************************************************************************)
HasPair == dieLow # NoAttr /\ dieHigh # NoAttr
Asked == caQuery.op = "containsAddress"

\* C3: with both DW_AT_low_pc (an address) and DW_AT_high_pc (an address,
\* or a data/udata offset from low_pc), containsAddress(A) is YES exactly
\* when low <= A < high, NO otherwise, never UNKNOWN.
C3_PairHalfOpen ==
    (/\ Asked /\ HasPair
     /\ dieLow.form = "DW_FORM_addr"
     /\ dieHigh.form \in DataForms \cup {"DW_FORM_addr"})
    => LET low == dieLow.value
           high == IF dieHigh.form = "DW_FORM_addr" THEN dieHigh.value
                   ELSE AddrAdd(low, dieHigh.value)
       IN  /\ caResult \in {"YES", "NO"}
           /\ caResult = "YES" <=> (low <= caQuery.addr /\ caQuery.addr < high)

\* A == high, with high given as an offset from low_pc, has answered NO.
C3_Witness ==
    /\ Asked /\ dieLow = Ref("DW_FORM_addr", 4096)
    /\ dieHigh = Ref("DW_FORM_data4", 32)
    /\ caQuery.addr = 4128 /\ caResult = "NO"

\* The list the decoder has stored for the DIE's DW_AT_ranges.
StoredRanges == rangesForOffset[dieRanges.value].ranges
LowBase == IF dieLow = NoAttr THEN 0 ELSE dieLow.value

\* C4: without a low_pc/high_pc pair, containsAddress(A) is YES exactly when
\* some decoded interval (s, e), shifted by base = DW_AT_low_pc (0 without
\* one), has s+base <= A <= e+base, NO otherwise, and UNKNOWN when the DIE
\* has no DW_AT_ranges either.  DWARF5, offset_pair(0x10, 0x20), base
\* 0x1000: 0x1015 is YES, 0x1025 is NO.
C4_RangesClosed ==
    (Asked /\ ~HasPair)
    => /\ dieRanges = NoAttr => caResult = "UNKNOWN"
       /\ dieRanges # NoAttr =>
             /\ caResult \in {"YES", "NO"}
             /\ caResult = "YES" <=>
                   \E i \in 1..Len(StoredRanges) :
                       /\ AddrAdd(StoredRanges[i][1], LowBase) <= caQuery.addr
                       /\ caQuery.addr <= AddrAdd(StoredRanges[i][2], LowBase)
       /\ (/\ unitVersion = 5 /\ dieRanges # NoAttr
           /\ dieLow = Ref("DW_FORM_addr", 4096)
           /\ debugRnglists[RnglistsOffset(dieRanges.value).value + 1]
              = RleEntry("DW_RLE_offset_pair", 16, 32)
           /\ debugRnglists[RnglistsOffset(dieRanges.value).value + 2] = EndOfList)
          => /\ caQuery.addr = 4117 => caResult = "YES"
             /\ caQuery.addr = 4133 => caResult = "NO"

\* The DWARF5 list of the DIE, as section indices: from its start up to
\* the first end_of_list.
ListStart == RnglistsOffset(dieRanges.value).value
ListEnd ==
    CHOOSE n \in ListStart..(Len(debugRnglists) - 1) :
        /\ debugRnglists[n + 1].type = "DW_RLE_end_of_list"
        /\ \A m \in ListStart..(n - 1) :
              debugRnglists[m + 1].type # "DW_RLE_end_of_list"
ListEntries == {i \in ListStart..(ListEnd - 1) : TRUE}
EntryAt(i) == debugRnglists[i + 1]
EmittingTypes == {"DW_RLE_offset_pair", "DW_RLE_start_end", "DW_RLE_start_length"}
IndexedTypes == {"DW_RLE_base_addressx", "DW_RLE_startx_endx", "DW_RLE_startx_length"}
Emitting == {i \in ListEntries : EntryAt(i).type \in EmittingTypes}
AbsoluteEntries ==
    {i \in ListEntries : EntryAt(i).type \in {"DW_RLE_start_end", "DW_RLE_start_length"}}
Max(S) == CHOOSE x \in S : \A y \in S : y <= x
\* The value of the most recent base_address entry before entry i, 0 when
\* the list has none yet.
BaseBefore(i) ==
    LET bs == {j \in ListEntries : j < i /\ EntryAt(j).type = "DW_RLE_base_address"}
    IN  IF bs = {} THEN 0 ELSE EntryAt(Max(bs)).a
AbsoluteRange(i) ==
    IF EntryAt(i).type = "DW_RLE_start_end" THEN <<EntryAt(i).a, EntryAt(i).b>>
    ELSE <<EntryAt(i).a, AddrAdd(EntryAt(i).a, EntryAt(i).b)>>
RangeOfEntry(i) ==
    IF EntryAt(i).type = "DW_RLE_offset_pair"
    THEN <<AddrAdd(BaseBefore(i), EntryAt(i).a), AddrAdd(BaseBefore(i), EntryAt(i).b)>>
    ELSE AbsoluteRange(i)
Rank(i) == Cardinality({j \in Emitting : j <= i})

DecodedV5 ==
    /\ unitVersion = 5 /\ dieRanges # NoAttr
    /\ ~rangesForOffset[dieRanges.value].isNew
    /\ caResult # "ABORT"

\* C5: a start_end(s, e) or start_length(s, len) entry denotes the absolute
\* range [s, e] (resp. [s, s+len]): the addresses containsAddress reports
\* are those of that range, whatever the DIE's DW_AT_low_pc and whatever
\* base_address entry precedes it.
C5_AbsoluteRanges ==
    (/\ Asked /\ ~HasPair /\ DecodedV5
     /\ AbsoluteEntries # {} /\ Emitting = AbsoluteEntries)
    => (caResult = "YES" <=>
          \E i \in AbsoluteEntries :
              /\ AbsoluteRange(i)[1] <= caQuery.addr
              /\ caQuery.addr <= AbsoluteRange(i)[2])

\* The DWARF4 list of the DIE: the pairs from its start up to the first
\* (0, 0) pair.
V4Start == dieRanges.value
V4End ==
    CHOOSE n \in V4Start..(Len(debugRanges) - 1) :
        /\ debugRanges[n + 1] = <<0, 0>>
        /\ \A m \in V4Start..(n - 1) : debugRanges[m + 1] # <<0, 0>>
V4Pairs_Read == SubSeq(debugRanges, V4Start + 1, V4End)
IsRangePair(p) == p[1] # AllOnes

\* C6: the DWARF4 decoder emits one range per pair read before the first
\* (0, 0) pair, in order, except the pairs whose first value is the
\* all-ones address: those are base-address selectors, not ranges.
C6_SelectorNotARange ==
    (/\ unitVersion = 4 /\ dieRanges # NoAttr
     /\ ~rangesForOffset[dieRanges.value].isNew)
    => StoredRanges = SelectSeq(V4Pairs_Read, IsRangePair)

\* C7: the DWARF5 decoder, from rnglists_base + offset: offset_pair(s, e)
\* emits (base+s, base+e) with base from the most recent base_address
\* entry; base_address emits nothing; no entry after end_of_list
\* contributes; the emitted list keeps the entries' order.
C7_RnglistsDecoding ==
    DecodedV5 =>
        /\ Len(StoredRanges) = Cardinality(Emitting)
        /\ \A i \in Emitting : StoredRanges[Rank(i)] = RangeOfEntry(i)

\* The list base_address(0x1000), offset_pair(0x10, 0x20), end_of_list,
\* found at rnglists_base + offset = 1 behind another list's entry, has
\* been decoded to the one range (0x1010, 0x1020).
C7_Witness ==
    /\ DecodedV5
    /\ debugRnglists = <<RleEntry("DW_RLE_start_end", 24, 33),
                         RleEntry("DW_RLE_base_address", 4096, 0),
                         RleEntry("DW_RLE_offset_pair", 16, 32), EndOfList>>
    /\ rnglistsBase # NoAttr /\ ListStart = 1
    /\ StoredRanges = <<(<<4112, 4128>>)>>

\* C8: decoding a DWARF5 list that holds a base_addressx, startx_endx or
\* startx_length entry resolves it or fails with an error the caller can
\* observe; it never aborts the program.
C8_IndexedEntriesDoNotAbort ==
    (/\ unitVersion = 5 /\ dieRanges # NoAttr
     /\ ~rangesForOffset[dieRanges.value].isNew
     /\ RnglistsOffset(dieRanges.value).ok
     /\ \E i \in ListEntries : EntryAt(i).type \in IndexedTypes)
    => caResult # "ABORT"

(***************************************************************************)
(* Claims on the DIE tree                                                  *)
(***************************************************************************)
\* The direct children of the DIE at item i, by the unit's structure.
ChildItems(shape, i) ==
    {k \in (i + 1)..(EndMarkerOf(shape, i) - 1) :
        /\ IsDieItem(shape, k)
        /\ OpenAfter(shape, k - 1) = OpenAfter(shape, i)}

RECURSIVE SortedOffsets(_, _)
SortedOffsets(shape, items) ==
    IF items = {} THEN <<>>
    ELSE LET k == CHOOSE x \in items : \A y \in items : x <= y
         IN  <<ItemOffset(shape, k)>> \o SortedOffsets(shape, items \ {k})

DeclaresChildren(off) == unitShape[ItemAtOffset(unitShape, off)] \in {"P", "S"}
ChildOffsets(off) ==
    SortedOffsets(unitShape, ChildItems(unitShape, ItemAtOffset(unitShape, off)))
EndMarkerOffset(off) ==
    ItemOffset(unitShape, EndMarkerOf(unitShape, ItemAtOffset(unitShape, off)))

AtEnd(it) == it.cur = 0 /\ DeclaresChildren(it.parent)

\* The iteration has yielded exactly the direct children, in offset order.
YieldsTheChildren(it) == it.yielded = ChildOffsets(it.parent)

\* At the end the parent's nextSibling is the offset after its end marker.
ParentSiblingSet(it) ==
    allEntries[it.parent].nextSibling = EndMarkerOffset(it.parent) + 1

\* A single child without children has firstChild = 0 and nextSibling at
\* the parent's end marker.
OnlyChildIsLeaf(off) ==
    /\ Len(ChildOffsets(off)) = 1
    /\ unitShape[ItemAtOffset(unitShape, ChildOffsets(off)[1])] = "L"

SingleChildLinks(it) ==
    OnlyChildIsLeaf(it.parent) =>
        LET oc == ChildOffsets(it.parent)[1]
        IN  /\ it.yielded = <<oc>>
            /\ allEntries[oc].firstChild = 0
            /\ allEntries[oc].nextSibling = EndMarkerOffset(it.parent)

\* The iterator at position k comes to the end in this step: Begin found no
\* first child, or Increment moved it off its last child.
ReachesEnd(k) ==
    /\ k \in 1..Len(iters')
    /\ \/ k > Len(iters)
       \/ Len(iters') = Len(iters) /\ iters[k].cur # 0
    /\ AtEnd(iters'[k])

\* What holds of iterator k and the cache when it stands at the end.
EndOfIteration(k) ==
    /\ YieldsTheChildren(iters[k])
    /\ ParentSiblingSet(iters[k])
    /\ SingleChildLinks(iters[k])

\* C10: iterating children() of a DIE P whose abbreviation declares
\* children yields exactly P's direct children, in increasing offset order,
\* each once, and ends with P's nextSibling set to the offset just after
\* the zero abbreviation code; when P has a single child at O_c without
\* children, it yields exactly one DIE at O_c, with firstChild = 0 and
\* nextSibling equal to the offset of P's end marker.  Checked on every step
\* in which an iterator reaches the end.
C10_ChildrenIteration ==
    [][\A k \in 1..MaxIters : ReachesEnd(k) => EndOfIteration(k)']_vars

\* The offset DW_AT_sibling of the DIE at `off` names.
SiblingAttribute(off) ==
    SiblingValue(unitShape, ItemAtOffset(unitShape, off)) + TreeUnit.offset
HasSiblingAttribute(off) == unitShape[ItemAtOffset(unitShape, off)] = "S"

\* An iteration over the children of a DIE with DW_AT_sibling ends in this
\* step with the DIE's recorded nextSibling equal to the attribute's offset.
SiblingConsistent(k) ==
    (ReachesEnd(k) /\ HasSiblingAttribute(iters'[k].parent)) =>
        allEntries'[iters'[k].parent].nextSibling
            = SiblingAttribute(iters'[k].parent)

\* DIE::nextSibling is called on the DIE at `off` for the first time in
\* this step.
FirstSiblingRequest(off) == ~allEntries[off].asked /\ allEntries'[off].asked

\* After the first request on a DIE without DW_AT_sibling all its children
\* are decoded and its nextSibling is set.
WalkedAndSet(off) ==
    (FirstSiblingRequest(off) /\ ~HasSiblingAttribute(off)) =>
        /\ \A i \in 1..Len(ChildOffsets(off)) :
                allEntries'[ChildOffsets(off)[i]].decoded
        /\ allEntries'[off].nextSibling # 0

\* C11: for a DIE with DW_AT_sibling the nextSibling recorded after
\* iterating all of its children is the offset the attribute gives; for a
\* DIE without DW_AT_sibling the first nextSibling request walks all of its
\* children and leaves its nextSibling set.
C11_SiblingConsistency ==
    [][/\ \A k \in 1..MaxIters : SiblingConsistent(k)
       /\ \A off \in DieOffsetsOf(unitShape) : WalkedAndSet(off)]_vars

\* The DIE whose list of children holds the DIE at `off`, by the unit's
\* structure.
ActualParent(off) ==
    LET i == ItemAtOffset(unitShape, off)
    IN  ItemOffset(unitShape,
                   CHOOSE p \in DieItems(unitShape) :
                       DeclaresChildren(ItemOffset(unitShape, p))
                       /\ i \in ChildItems(unitShape, p))

\* A step with a getParentOffset() call: every call leaves a new record,
\* but for a call that repeats the last one on an unchanged parent.
ParentQueried == parentResult' # parentResult

\* What a getParentOffset() call on a non-root DIE leaves: the actual
\* parent as its result and, when it had to walk, the actual parent in
\* every DIE that was decoded before the call.
ParentAnswered ==
    parentResult'.die # RootOffset(unitShape) =>
        /\ parentResult'.kind = "offset"
        /\ parentResult'.parent = ActualParent(parentResult'.die)
        /\ parentResult'.walked =>
               \A d \in DieOffsetsOf(unitShape) \ {RootOffset(unitShape)} :
                   allEntries[d].decoded =>
                       allEntries'[d].parent = ActualParent(d)

\* C12: getParentOffset() on a non-root DIE returns the offset of its
\* actual parent, whatever was done before and however the DIE was first
\* decoded; when the parent was still 0 the walk from the root fills it in,
\* so the assertion holds, and fills the parent of every other decoded DIE.
C12_ParentOffset == [][ParentQueried => ParentAnswered]_vars

\* A DIE that is not a child of the root was decoded through a reference,
\* and getParentOffset() on it walked the unit and returned its parent,
\* with another DIE that is not on its path to the root decoded as well.
C12_Witness ==
    /\ parentResult.walked
    /\ parentResult.kind = "offset"
    /\ parentResult.die # RootOffset(unitShape)
    /\ parentResult.parent = ActualParent(parentResult.die)
    /\ parentResult.parent # RootOffset(unitShape)
    /\ \A d \in DieOffsetsOf(unitShape) : allEntries[d].decoded
    /\ Cardinality(DieOffsetsOf(unitShape)) >= 4

\* The offset `f` of the decoded DIE at `d` is left alone in this step, or
\* filled in from 0.
OnlyFilledIn(d, f) ==
    \/ allEntries'[d][f] = allEntries[d][f]
    \/ allEntries[d][f] = 0 /\ allEntries'[d][f] # 0

\* C13: a decoded DIE is never mutated except to fill in an offset that was
\* not yet determined: over child iteration, sibling requests,
\* cross-reference decoding and parent queries, its parent, firstChild and
\* nextSibling change only from 0 to a non-zero value, which they keep.
C13_OnlyFillIn ==
    [][\A d \in DieOffsetsOf(unitShape) :
           allEntries[d].decoded =>
               /\ allEntries'[d].decoded
               /\ \A f \in {"parent", "firstChild", "nextSibling"} :
                      OnlyFilledIn(d, f)]_vars

(***************************************************************************)
(* Claims on scoped stop/resume                                            *)
(***************************************************************************)
\* The positions in hostCalls of the calls `op` made by scope `id`.
CallsBy(id, op) == {i \in 1..Len(hostCalls) :
                       hostCalls[i].by = id /\ hostCalls[i].op = op}
CallsOf(id) == {i \in 1..Len(hostCalls) : hostCalls[i].by = id}

\* One call `first` then one call `second`, both with `lwp`, and nothing
\* else from this scope.
ExactlyPair(id, first, second, lwp) ==
    /\ Cardinality(CallsBy(id, first)) = 1
    /\ Cardinality(CallsBy(id, second)) = 1
    /\ Cardinality(CallsOf(id)) = 2
    /\ \A i \in CallsBy(id, first) : \A j \in CallsBy(id, second) : i < j
    /\ \A i \in CallsOf(id) : hostCalls[i].lwp = lwp

\* C14: every StopProcess scope issues stopProcess once at construction and
\* exactly one resumeProcess by the time it ends, on every exit path and
\* whether clear() was called zero, one or several times (after clear() the
\* guard is disarmed and issues no further resume); every StopLWP scope
\* issues exactly one resume(lwp) for its stop(lwp), for the same lwp.
C14_ScopedStopResume ==
    /\ \A e \in ended :
           IF e.kind = "StopProcess"
           THEN ExactlyPair(e.id, "stopProcess", "resumeProcess", 0)
           ELSE ExactlyPair(e.id, "stop", "resume", e.lwp)
    /\ \A i \in 1..Len(scopes) :
           LET g == scopes[i]
           IN  IF g.kind = "StopProcess"
               THEN /\ Cardinality(CallsBy(g.id, "stopProcess")) = 1
                    /\ g.clears > 0 => ~g.proc
                    /\ Cardinality(CallsBy(g.id, "resumeProcess"))
                           = (IF g.clears > 0 THEN 1 ELSE 0)
               ELSE /\ Cardinality(CallsBy(g.id, "stop")) = 1
                    /\ CallsBy(g.id, "resume") = {}

\* Three scopes have ended: a StopProcess cleared twice and left by an
\* exception, a StopProcess never cleared, and a StopLWP.
C14_Witness ==
    /\ \E e \in ended : e.kind = "StopProcess" /\ e.clears = 2 /\ e.exit = "exception"
    /\ \E e \in ended : e.kind = "StopProcess" /\ e.clears = 0
    /\ \E e \in ended : e.kind = "StopLWP" /\ e.lwp = 2
    /\ Len(hostCalls) = 6

(***************************************************************************)
(* Claims on findEntryForAddr                                              *)
(***************************************************************************)
\* The DIE at `a` is a proper ancestor of the DIE at `x`.
IsAncestor(a, x) ==
    LET ia == ItemAtOffset(unitShape, a)
        ix == ItemAtOffset(unitShape, x)
    IN  /\ DeclaresChildren(a)
        /\ ia < ix
        /\ ix < EndMarkerOf(unitShape, ia)

\* The DIEs of the subtree searched from `start`.
SubtreeOf(start) ==
    {x \in DieOffsetsOf(unitShape) : x = start \/ IsAncestor(start, x)}

AnswerOf(x, addr) == dieContainsAddress(dieInfo[x], addr)

\* No DIE from `start` down to the parent of `x` answers NO.
Reachable(r, x) ==
    \A a \in SubtreeOf(r.start) : IsAncestor(a, x) => AnswerOf(a, r.addr) # "NO"

\* The DIEs of the searched subtree that the search may return.
Qualifying(r) ==
    {x \in SubtreeOf(r.start) :
        /\ AnswerOf(x, r.addr) = "YES"
        /\ dieInfo[x].tag = r.tag
        /\ Reachable(r, x)
        /\ r.skipStart => x # r.start}

\* C15: findEntryForAddr(A, t, skipStart) returns an empty DIE or a DIE of
\* tag t whose containsAddress(A) is YES; it searches the children of a DIE
\* that answers UNKNOWN or YES and returns nothing from a subtree whose root
\* answers NO; with skipStart the starting DIE is never returned; of several
\* qualifying DIEs it returns the first in pre-order of the searched
\* subtree.
C15_FindEntryForAddr ==
    LET r == findResult
    IN  r # NoFindResult =>
            /\ r.die # 0 =>
                   /\ dieInfo[r.die].tag = r.tag
                   /\ AnswerOf(r.die, r.addr) = "YES"
                   /\ r.die \in SubtreeOf(r.start)
                   /\ Reachable(r, r.die)
            /\ r.skipStart => r.die # r.start
            /\ IF Qualifying(r) = {} THEN r.die = 0
               ELSE /\ r.die \in Qualifying(r)
                    /\ \A x \in Qualifying(r) : r.die <= x

\* A search with skipStart from a DIE that itself matches returned a child
\* that has a matching descendant of its own.
C15_Witness ==
    LET r == findResult
    IN  /\ r.skipStart
        /\ AnswerOf(r.start, r.addr) = "YES"
        /\ dieInfo[r.start].tag = r.tag
        /\ r.die # 0
        /\ \E x \in Qualifying(r) : IsAncestor(r.die, x)

(***************************************************************************)
(* Claims on termination of the attribute lookup                           *)
(***************************************************************************)
\* C16: attribute(name, local = false) terminates on every finite DIE
\* reference graph and returns a found attribute or the invalid attribute,
\* also when the DW_AT_abstract_origin / DW_AT_specification references of
\* DIEs that all lack `name` form a cycle of two or more DIEs.  (A lookup
\* that ends with the exception of an unresolvable alt reference does not
\* return; that outcome belongs to C9.)
C16_AttributeTerminates ==
    (attrQuery.op = "attribute" /\ ~attrQuery.local) =>
        /\ attrResult # NoReturn
        /\ attrResult # Thrown => attrResult.kind \in {"attr", "invalid"}

====
